---- MODULE Spec2Model ----
(***************************************************************************)
(* A model of src/src/commands.py of CCBR/spacesavers: the duplicate       *)
(* finder _ls (size -> first-block MD5 -> full MD5), the metadata          *)
(* extractor file_stats and the uid/gid name cache name/_name.             *)
(*                                                                         *)
(* A file's content is a sequence of chunks.  One chunk stands for one     *)
(* 64 KiB block, so a file's size is counted in blocks and the "mini       *)
(* hash" of the code reads the first BlockSize chunks.                     *)
(***************************************************************************)
EXTENDS Integers, Sequences, FiniteSets, TLC

\* ------------------------------------------------------------------ bounds
NumFiles == 3        \* paths yielded by traversed(path), in encounter order

\* --------------------------------------------------------------- constants
BlockSize == 1       \* the block md5sum(file, first_block_only = True) reads

Files == 1..NumFiles
\* What a file may hold: nothing, one block, or one block and one chunk more.
\* Two files of these are of different sizes, or differ in the first block,
\* or agree on the first block and differ after it, or are identical.
MaxLen == BlockSize + 1
Contents == {<<>>, <<0>>, <<1>>, <<0, 0>>, <<0, 1>>}

\* The unix account databases (pwd, grp).  Id 1000 is a user and a group
\* with different names; id 4242 is in neither database.
Ids == {1000, 4242}
UserDb == [u \in {1000} |-> "alice"]
GroupDb == [g \in {1000} |-> "staff"]
IdStr == [n \in Ids |-> IF n = 1000 THEN "1000" ELSE "4242"]

VARIABLES
    content,      \* input: content[f], the bytes of file f on disk
    st_uid,       \* input: os.stat(f).st_uid
    st_gid,       \* input: os.stat(f).st_gid
    md5,          \* input: the md5 argument of _ls
    pc,           \* the loop of _ls that is running
    i,            \* position of that loop in what it iterates over
    j,            \* position of the inner "for file in files" loop
    users,        \* _ls.users
    sizes,        \* _ls.sizes
    mini_hashes,  \* _ls.mini_hashes
    full_hashes,  \* _ls.full_hashes
    out,          \* lines printed to standard output
    errlog,       \* warnings handed to err()
    md5calls,     \* calls of md5sum, in order
    dbcalls       \* calls of getpwuid / getgrgid, in order

vars == <<content, st_uid, st_gid, md5, pc, i, j, users, sizes, mini_hashes,
          full_hashes, out, errlog, md5calls, dbcalls>>

inputs == <<content, st_uid, st_gid, md5>>

\* ----------------------------------------------------------------- helpers
Range(s) == {s[k] : k \in 1..Len(s)}

Min(a, b) == IF a < b THEN a ELSE b

\* a slice that starts one element late: files[2:]
Tail2(s) == SubSeq(s, 3, Len(s))

\* files[1:]
Tail1(s) == SubSeq(s, 2, Len(s))

\* A python dict, which iterates in insertion order: a sequence of items.
HasKey(d, k) == \E n \in 1..Len(d) : d[n].key = k

KeyIndex(d, k) == CHOOSE n \in 1..Len(d) : d[n].key = k

\* the bucket is emptied on every insert: d[k] = [] ; d[k].append(f)
DictReset(d, k, f) ==
    IF HasKey(d, k)
    THEN [d EXCEPT ![KeyIndex(d, k)].files = <<f>>]
    ELSE Append(d, [key |-> k, files |-> <<f>>])

\* the file is put in front: d[k].insert(0, f)
DictPrepend(d, k, f) ==
    IF HasKey(d, k)
    THEN [d EXCEPT ![KeyIndex(d, k)].files = <<f>> \o @]
    ELSE Append(d, [key |-> k, files |-> <<f>>])

\* if k not in d: d[k] = [] ; d[k].append(f)
DictAppend(d, k, f) ==
    IF HasKey(d, k)
    THEN [d EXCEPT ![KeyIndex(d, k)].files = Append(@, f)]
    ELSE Append(d, [key |-> k, files |-> <<f>>])

\* An MD5 digest of a chunk sequence, as a number.  Distinct sequences get
\* distinct digests: the design's no-collision assumption.
RECURSIVE Digest(_)
Digest(s) == IF s = <<>> THEN 1 ELSE 3 * Digest(SubSeq(s, 1, Len(s) - 1)) + s[Len(s)]

\* utils.md5sum(file, first_block_only)
md5sum(bytes, first_block_only) ==
    IF first_block_only
    THEN Digest(SubSeq(bytes, 1, Min(BlockSize, Len(bytes))))
    ELSE Digest(bytes)

\* os.path.getsize(file)
getsize(bytes) == Len(bytes)

\* -------------------------------------------------------- name cache, stat
Named(n) == [tag |-> "name", val |-> n]
RawId(n) == [tag |-> "id", val |-> n]

\* str(val) of file_stats, line 148
Str(v) == IF v.tag = "id" THEN IdStr[v.val] ELSE v.val

\* _name(uid, uid_type)
_name(uid, uid_type) ==
    IF uid_type = "user"
    THEN IF uid \in DOMAIN UserDb THEN Named(UserDb[uid]) ELSE RawId(uid)
    ELSE IF uid \in DOMAIN GroupDb THEN Named(GroupDb[uid]) ELSE RawId(uid)

\* the name is not stored
NoRemember(uid_records, uid, nm) == uid_records

\* uid_records[uid] = name, line 105
Remember(uid_records, uid, nm) ==
    [k \in DOMAIN uid_records \cup {uid} |-> IF k = uid THEN nm ELSE uid_records[k]]

\* name(uid, uid_type, uid_records): the name, the records afterwards and the
\* database calls made
name(uid, uid_type, uid_records) ==
    IF uid \in DOMAIN uid_records
    THEN [name |-> uid_records[uid], records |-> uid_records, calls |-> <<>>]
    ELSE [name |-> _name(uid, uid_type),
          records |-> Remember(uid_records, uid, _name(uid, uid_type)),
          calls |-> <<[id |-> uid, kind |-> uid_type]>>]

\* file_stats(file, users) when os.stat succeeds
file_stats(file, uid, gid, bsize, recs) ==
    LET o == name(uid, "user", recs)
        g == name(gid, "group", o.records)
    IN [info |-> [owner |-> Str(o.name), group |-> Str(g.name), bsize |-> bsize],
        users |-> g.records,
        calls |-> o.calls \o g.calls]

\* file_info.extend([file, duplicates]); print(...)
Row(info, file, duplicates) ==
    [owner |-> info.owner, group |-> info.group, bsize |-> info.bsize,
     file |-> file, duplicates |-> duplicates]

Warning(file, probe) == [file |-> file, probe |-> probe]

\* -------------------------------------------------------------------- Init
InitState ==
    /\ pc = "stage1"
    /\ i = 1
    /\ j = 0
    /\ users = <<>>
    /\ sizes = <<>>
    /\ mini_hashes = <<>>
    /\ full_hashes = <<>>
    /\ out = <<>>
    /\ errlog = <<>>
    /\ md5calls = <<>>
    /\ dbcalls = <<>>

\* Any tree, every file owned by 1000:1000, full hashes asked for.
Init ==
    /\ content \in [Files -> Contents]
    /\ st_uid = [f \in Files |-> 1000]
    /\ st_gid = [f \in Files |-> 1000]
    /\ md5 = TRUE
    /\ InitState

\* The same trees, scanned with md5 = False (the default of _ls).
InitFast ==
    /\ content \in [Files -> Contents]
    /\ st_uid = [f \in Files |-> 1000]
    /\ st_gid = [f \in Files |-> 1000]
    /\ md5 = FALSE
    /\ InitState

\* A tree of zero-filled files, the first two of one block and the others of
\* the lengths 0, 2, 1, 0, .., with any owners and groups.
IdLen(f) == IF f <= 2 THEN BlockSize ELSE (2 * (f - 3)) % (MaxLen + 1)

InitId ==
    /\ content = [f \in Files |-> [n \in 1..IdLen(f) |-> 0]]
    /\ st_uid \in [Files -> Ids]
    /\ st_gid \in [Files -> Ids]
    /\ md5 = TRUE
    /\ InitState

\* ------------------------------------------------------ pieces of _ls
\* the loop over traversed(path) is left one path early
TraversalDoneEarly == i > NumFiles - 1

\* "for file in traversed(path)" has yielded every path
TraversalDone == i > NumFiles

\* if len(files) < 1
IsSingletonOffByOne(files) == Len(files) < 1

\* if len(files) < 2, lines 227 and 258
IsSingleton(files) == Len(files) < 2

\* the key (mini_hash, size), lines 245-247
MiniKey(mini_hash, size) == <<mini_hash, size>>

\* the bucket is keyed by the size alone
FullKeyNoHash(full_hash, size) == <<0, size>>

\* the key (full_hash, size), lines 275-277
FullKey(full_hash, size) == <<full_hash, size>>

\* ----------------------------------------------------- report one bucket
\* file = files[0]; file_info = file_stats(file, users); print(...)
EmitOk(files) ==
    LET file == files[1]
        st == file_stats(file, st_uid[file], st_gid[file], getsize(content[file]), users)
    IN /\ out' = Append(out, Row(st.info, file, Tail1(files)))
       /\ users' = st.users
       /\ dbcalls' = dbcalls \o st.calls
       /\ UNCHANGED errlog

\* os.stat raises: file_stats warns and returns [], the bucket is skipped
EmitFail(files) ==
    /\ errlog' = Append(errlog, Warning(files[1], "stat"))
    /\ UNCHANGED <<out, users, dbcalls>>

\* ------------------------------------------------------- stage 1, by size
Stage1SizeOk ==
    /\ pc = "stage1" /\ ~TraversalDone
    /\ sizes' = DictAppend(sizes, getsize(content[i]), i)
    /\ i' = i + 1
    /\ UNCHANGED <<inputs, pc, j, users, mini_hashes, full_hashes, out, errlog,
                   md5calls, dbcalls>>

Stage1SizeFail ==
    /\ pc = "stage1" /\ ~TraversalDone
    /\ errlog' = Append(errlog, Warning(i, "size"))
    /\ i' = i + 1
    /\ UNCHANGED <<inputs, pc, j, users, sizes, mini_hashes, full_hashes, out,
                   md5calls, dbcalls>>

Stage1Exit ==
    /\ pc = "stage1" /\ TraversalDone
    /\ pc' = "stage2" /\ i' = 1 /\ j' = 0
    /\ UNCHANGED <<inputs, users, sizes, mini_hashes, full_hashes, out, errlog,
                   md5calls, dbcalls>>

\* ------------------------------------------------ stage 2, by first block
Stage2SingleOk ==
    /\ pc = "stage2" /\ i <= Len(sizes)
    /\ IsSingleton(sizes[i].files)
    /\ EmitOk(sizes[i].files)
    /\ i' = i + 1
    /\ UNCHANGED <<inputs, pc, j, sizes, mini_hashes, full_hashes, md5calls>>

Stage2SingleFail ==
    /\ pc = "stage2" /\ i <= Len(sizes)
    /\ IsSingleton(sizes[i].files)
    /\ EmitFail(sizes[i].files)
    /\ i' = i + 1
    /\ UNCHANGED <<inputs, pc, j, sizes, mini_hashes, full_hashes, md5calls>>

\* the inner loop moves to the next file, or the outer one to the next item
InnerNext(d) ==
    IF j + 1 < Len(d[i].files)
    THEN /\ j' = j + 1 /\ i' = i
    ELSE /\ j' = 0 /\ i' = i + 1

\* "break" in place of "continue": the rest of the bucket is left out
AfterFailureBreak(d) == j' = 0 /\ i' = i + 1

\* "continue   # goto next file" of the except branches, lines 252 and 282
AfterFailure(d) == InnerNext(d)

Stage2HashOk ==
    /\ pc = "stage2" /\ i <= Len(sizes)
    /\ ~IsSingleton(sizes[i].files)
    /\ LET file == sizes[i].files[j + 1]
           mini_hash == md5sum(content[file], TRUE)
       IN /\ md5calls' = Append(md5calls, [file |-> file, first_block_only |-> TRUE])
          /\ mini_hashes' = DictAppend(mini_hashes, MiniKey(mini_hash, sizes[i].key), file)
    /\ InnerNext(sizes)
    /\ UNCHANGED <<inputs, pc, users, sizes, full_hashes, out, errlog, dbcalls>>

Stage2HashFail ==
    /\ pc = "stage2" /\ i <= Len(sizes)
    /\ ~IsSingleton(sizes[i].files)
    /\ LET file == sizes[i].files[j + 1]
       IN /\ md5calls' = Append(md5calls, [file |-> file, first_block_only |-> TRUE])
          /\ errlog' = Append(errlog, Warning(file, "mini"))
    /\ AfterFailure(sizes)
    /\ UNCHANGED <<inputs, pc, users, sizes, mini_hashes, full_hashes, out, dbcalls>>

Stage2Exit ==
    /\ pc = "stage2" /\ i > Len(sizes)
    /\ pc' = "stage3" /\ i' = 1 /\ j' = 0
    /\ UNCHANGED <<inputs, users, sizes, mini_hashes, full_hashes, out, errlog,
                   md5calls, dbcalls>>

\* ------------------------------------------------- stage 3, by whole file
Stage3SingleOk ==
    /\ pc = "stage3" /\ i <= Len(mini_hashes)
    /\ IsSingleton(mini_hashes[i].files)
    /\ EmitOk(mini_hashes[i].files)
    /\ i' = i + 1
    /\ UNCHANGED <<inputs, pc, j, sizes, mini_hashes, full_hashes, md5calls>>

Stage3SingleFail ==
    /\ pc = "stage3" /\ i <= Len(mini_hashes)
    /\ IsSingleton(mini_hashes[i].files)
    /\ EmitFail(mini_hashes[i].files)
    /\ i' = i + 1
    /\ UNCHANGED <<inputs, pc, j, sizes, mini_hashes, full_hashes, md5calls>>

Stage3HashOk ==
    /\ pc = "stage3" /\ i <= Len(mini_hashes)
    /\ ~IsSingleton(mini_hashes[i].files)
    /\ LET file == mini_hashes[i].files[j + 1]
           size == mini_hashes[i].key[2]
           full_hash == md5sum(content[file], FALSE)
       IN /\ md5calls' = Append(md5calls, [file |-> file, first_block_only |-> FALSE])
          /\ full_hashes' = DictAppend(full_hashes, FullKey(full_hash, size), file)
    /\ InnerNext(mini_hashes)
    /\ UNCHANGED <<inputs, pc, users, sizes, mini_hashes, out, errlog, dbcalls>>

Stage3HashFail ==
    /\ pc = "stage3" /\ i <= Len(mini_hashes)
    /\ ~IsSingleton(mini_hashes[i].files)
    /\ LET file == mini_hashes[i].files[j + 1]
       IN /\ md5calls' = Append(md5calls, [file |-> file, first_block_only |-> FALSE])
          /\ errlog' = Append(errlog, Warning(file, "full"))
    /\ AfterFailure(mini_hashes)
    /\ UNCHANGED <<inputs, pc, users, sizes, mini_hashes, full_hashes, out, dbcalls>>

Stage3Exit ==
    /\ pc = "stage3" /\ i > Len(mini_hashes)
    /\ pc' = "report" /\ i' = 1 /\ j' = 0
    /\ UNCHANGED <<inputs, users, sizes, mini_hashes, full_hashes, out, errlog,
                   md5calls, dbcalls>>

\* ------------------------------------------------ the full-hash buckets
ReportOk ==
    /\ pc = "report" /\ i <= Len(full_hashes)
    /\ EmitOk(full_hashes[i].files)
    /\ i' = i + 1
    /\ UNCHANGED <<inputs, pc, j, sizes, mini_hashes, full_hashes, md5calls>>

ReportFail ==
    /\ pc = "report" /\ i <= Len(full_hashes)
    /\ EmitFail(full_hashes[i].files)
    /\ i' = i + 1
    /\ UNCHANGED <<inputs, pc, j, sizes, mini_hashes, full_hashes, md5calls>>

\* return
ReportExit ==
    /\ pc = "report" /\ i > Len(full_hashes)
    /\ pc' = "done"
    /\ UNCHANGED <<inputs, i, j, users, sizes, mini_hashes, full_hashes, out,
                   errlog, md5calls, dbcalls>>

Next ==
    \/ Stage1SizeOk \/ Stage1SizeFail \/ Stage1Exit
    \/ Stage2SingleOk \/ Stage2SingleFail \/ Stage2HashOk \/ Stage2HashFail
    \/ Stage2Exit
    \/ Stage3SingleOk \/ Stage3SingleFail \/ Stage3HashOk \/ Stage3HashFail
    \/ Stage3Exit
    \/ ReportOk \/ ReportFail \/ ReportExit

Spec == Init /\ [][Next]_vars

SpecFast == InitFast /\ [][Next]_vars

SpecId == InitId /\ [][Next]_vars

\* ===================================================== derived notions
Done == pc = "done"

\* the paths of a row: the representative, then the duplicates
Members(r) == <<r.file>> \o r.duplicates

InRow(f, r) == f \in Range(Members(r))

\* the paths held by some bucket of a dict
Held(d) == UNION {Range(d[n].files) : n \in 1..Len(d)}

\* the files named by a warning of the given probe
Failed(probe) == {w.file : w \in {x \in Range(errlog) : x.probe = probe}}

Warned == {w.file : w \in Range(errlog)}

\* the files md5sum was called on, first block only or whole
Hashed(first_block_only) ==
    {c.file : c \in {x \in Range(md5calls) : x.first_block_only = first_block_only}}

FirstBlock(f) == SubSeq(content[f], 1, Min(BlockSize, Len(content[f])))

SameSize(f, g) == Len(content[f]) = Len(content[g])

SameFirstBlock(f, g) == FirstBlock(f) = FirstBlock(g)

Identical(f, g) == SameSize(f, g) /\ SameFirstBlock(f, g) /\ content[f] = content[g]

Twins(f) == {g \in Files : Identical(f, g)}

\* a set of paths in encounter order
RECURSIVE InOrder(_)
InOrder(S) ==
    IF S = {} THEN <<>>
    ELSE LET m == CHOOSE x \in S : \A y \in S : x <= y IN <<m>> \o InOrder(S \ {m})

Increasing(s) == \A a, b \in 1..Len(s) : a < b => s[a] < s[b]

\* the rows that hold f
RowsOf(f) == {n \in 1..Len(out) : InRow(f, out[n])}

\* the buckets that are reported: singletons of stage 1 and 2, all of stage 3
FinalBuckets ==
    {sizes[n].files : n \in {m \in 1..Len(sizes) : Len(sizes[m].files) < 2}}
    \cup {mini_hashes[n].files :
            n \in {m \in 1..Len(mini_hashes) : Len(mini_hashes[m].files) < 2}}
    \cup {full_hashes[n].files : n \in 1..Len(full_hashes)}

\* the paths of the buckets skipped because os.stat of the representative failed
Skipped == UNION {Range(b) : b \in {x \in FinalBuckets : x[1] \in Failed("stat")}}

AllRowPaths == UNION {Range(Members(out[n])) : n \in 1..Len(out)}

\* every path is in at most one row and at most once in it
RowsDisjoint ==
    /\ \A n \in 1..Len(out) :
          \A a, b \in 1..Len(Members(out[n])) :
             a # b => Members(out[n])[a] # Members(out[n])[b]
    /\ \A m, n \in 1..Len(out) :
          m # n => Range(Members(out[m])) \cap Range(Members(out[n])) = {}

\* ================================================================ C1
\* C1: at the end of _ls, every class of byte-identical files none of whose
\* probes failed is in exactly one row, with one member as the representative
\* and all the others in that row's duplicate list, and in no other row.
C1_IdenticalInOneRow ==
    Done =>
      \A f \in Files :
         Twins(f) \cap Warned = {} =>
           /\ Cardinality(RowsOf(f)) = 1
           /\ \A n \in RowsOf(f) :
                 /\ Twins(f) \subseteq Range(Members(out[n]))
                 /\ out[n].file \in Twins(f)
                 /\ Twins(f) \ {out[n].file} \subseteq Range(out[n].duplicates)
                 /\ out[n].file \notin Range(out[n].duplicates)
                 /\ Len(Members(out[n])) = Cardinality(Range(Members(out[n])))
           /\ \A g \in Twins(f) : RowsOf(g) = RowsOf(f)

C1_Witness ==
    /\ Done
    /\ errlog = <<>>
    /\ \E f, g \in Files :
          /\ f # g /\ Identical(f, g)
          /\ \E n \in 1..Len(out) : out[n].file = f /\ g \in Range(out[n].duplicates)

\* ================================================================ C2
\* C2 (as claimed): at the end the rows partition the surviving input, and
\* the paths of all rows are the traversed paths minus those that had a
\* failing probe of their own.
C2_UnionMinusOwnFailures ==
    Done => /\ RowsDisjoint
            /\ AllRowPaths = Files \ Warned

\* C2 (amended): at the end the rows partition the surviving input, and the
\* paths of all rows are the traversed paths minus those whose own size probe
\* or hash failed and minus every member of a bucket whose representative's
\* metadata probe failed.
C2_UnionMinusExcluded ==
    Done => /\ RowsDisjoint
            /\ AllRowPaths =
                 Files \ (Failed("size") \cup Failed("mini") \cup Failed("full")
                          \cup Skipped)

C2_Witness ==
    /\ Done
    /\ \E f \in Failed("stat") : \E g \in Skipped : g # f /\ g \notin Warned
    /\ out # <<>>

\* ================================================================ C3
SameFingerprints(f, g) ==
    /\ getsize(content[f]) = getsize(content[g])
    /\ md5sum(content[f], TRUE) = md5sum(content[g], TRUE)
    /\ md5sum(content[f], FALSE) = md5sum(content[g], FALSE)

RowsAgree ==
    \A n \in 1..Len(out) :
       \A f, g \in Range(Members(out[n])) : SameFingerprints(f, g)

\* no other file has the size of f
UniqueSize(f) == \A g \in Files \ {f} : ~SameSize(f, g)

\* f shares its size and first block with other files and differs from each
\* of them after the first block
DiffersAfterBlock(f) ==
    /\ \E g \in Files \ {f} : SameSize(f, g) /\ SameFirstBlock(f, g)
    /\ \A g \in Files \ {f} :
          SameSize(f, g) /\ SameFirstBlock(f, g) => content[f] # content[g]

HasSingletonRow(f) == \E n \in 1..Len(out) : out[n].file = f /\ out[n].duplicates = <<>>

\* C3 (as claimed): the paths of a row agree on size, partial and full
\* fingerprint; at the end every file of a size of its own, and every file
\* that differs from its same-size same-first-block files after the first
\* block, has a singleton row.
C3_AlwaysSingletonRow ==
    /\ RowsAgree
    /\ Done => \A f \in Files :
                  UniqueSize(f) \/ DiffersAfterBlock(f) => HasSingletonRow(f)

\* C3 (amended): the paths of a row agree on size, partial and full
\* fingerprint; at the end every file of a size of its own, and every file
\* that differs from its same-size same-first-block files after the first
\* block, is in exactly one row, a singleton row, unless one of its own
\* probes failed, and then it is in no row.
C3_SingletonRowUnlessFailed ==
    /\ RowsAgree
    /\ Done => \A f \in Files :
                  UniqueSize(f) \/ DiffersAfterBlock(f) =>
                     IF f \in Warned
                     THEN RowsOf(f) = {}
                     ELSE HasSingletonRow(f) /\ Cardinality(RowsOf(f)) = 1

C3_Witness ==
    /\ Done
    /\ \E f, g \in Files :
          /\ f # g /\ DiffersAfterBlock(f) /\ DiffersAfterBlock(g)
          /\ SameSize(f, g) /\ SameFirstBlock(f, g)
          /\ HasSingletonRow(f) /\ HasSingletonRow(g)
    /\ \E f \in Files : UniqueSize(f) /\ HasSingletonRow(f)

\* ================================================================ C4
\* C4: with md5 false no whole-file hash is computed, and at the end every
\* stage-2 bucket of two or more files whose representative could be
\* stat-ed is one row of representative plus duplicates.
C4_NoFullHashWhenOff ==
    md5 = FALSE =>
       /\ Hashed(FALSE) = {}
       /\ Done => \A n \in 1..Len(mini_hashes) :
                     /\ Len(mini_hashes[n].files) >= 2
                     /\ mini_hashes[n].files[1] \notin Failed("stat")
                     => \E r \in 1..Len(out) : Members(out[r]) = mini_hashes[n].files

\* ================================================================ C5
\* C5: every row shows the user database's name of the file's uid as owner
\* and the group database's name of the file's gid as group (the id itself
\* where the database has no entry), whatever was resolved before.
C5_KindsIndependent ==
    \A n \in 1..Len(out) :
       /\ out[n].owner = Str(_name(st_uid[out[n].file], "user"))
       /\ out[n].group = Str(_name(st_gid[out[n].file], "group"))

\* ================================================================ C6
DbCalls(id, kind) == {k \in 1..Len(dbcalls) : dbcalls[k] = [id |-> id, kind |-> kind]}

Kinds == {"user", "group"}

\* how often id was resolved: once as uid and once as gid per row
Resolves(id) ==
    Cardinality({n \in 1..Len(out) : st_uid[out[n].file] = id})
    + Cardinality({n \in 1..Len(out) : st_gid[out[n].file] = id})

\* C6: the account database is asked at most once per id and kind; what it
\* answered (the id itself for an id it does not know) is what the cache
\* holds; the cache holds nothing else; every row shows the cached names.
C6_OneQueryPerId ==
    /\ \A id \in Ids : \A kind \in Kinds : Cardinality(DbCalls(id, kind)) <= 1
    /\ \A k \in 1..Len(dbcalls) :
          /\ dbcalls[k].id \in DOMAIN users
          /\ users[dbcalls[k].id] = _name(dbcalls[k].id, dbcalls[k].kind)
    /\ \A id \in DOMAIN users :
          /\ \E kind \in Kinds : DbCalls(id, kind) # {}
          /\ id \notin DOMAIN UserDb \cup DOMAIN GroupDb => users[id] = RawId(id)
    /\ \A n \in 1..Len(out) :
          /\ st_uid[out[n].file] \in DOMAIN users
          /\ st_gid[out[n].file] \in DOMAIN users
          /\ out[n].owner = Str(users[st_uid[out[n].file]])
          /\ out[n].group = Str(users[st_gid[out[n].file]])
    /\ \A id \in Ids : Resolves(id) > 0 => id \in DOMAIN users

C6_Witness ==
    /\ Len(out) >= 2
    /\ \E id \in Ids :
          /\ id \notin DOMAIN UserDb
          /\ Resolves(id) >= 3
          /\ Cardinality(DbCalls(id, "user")) = 1
          /\ DbCalls(id, "group") = {}
          /\ users[id] = RawId(id)
          /\ \E n \in 1..Len(out) : out[n].owner = IdStr[id]

\* ================================================================ C7
BucketsInOrder(d) == \A n \in 1..Len(d) : Increasing(d[n].files)

\* C7: in every row the representative is the member traversal yielded first
\* and the duplicates follow in encounter order, and every bucket of the
\* three stages lists its files in encounter order.
C7_EncounterOrder ==
    /\ \A n \in 1..Len(out) :
          /\ Increasing(Members(out[n]))
          /\ \A g \in Range(out[n].duplicates) : out[n].file < g
    /\ BucketsInOrder(sizes)
    /\ BucketsInOrder(mini_hashes)
    /\ BucketsInOrder(full_hashes)

C7_Witness ==
    /\ Done
    /\ \E n \in 1..Len(out) : Len(out[n].duplicates) >= 2

\* ================================================================ C8
\* f was handed to os.path.getsize and is in no size bucket
SizeProbeFailed(f) == (pc # "stage1" \/ f < i) /\ f \notin Held(sizes)

\* f was handed to md5sum and is in no bucket of that stage
MiniHashFailed(f) == f \in Hashed(TRUE) /\ f \notin Held(mini_hashes)

FullHashFailed(f) == f \in Hashed(FALSE) /\ f \notin Held(full_hashes)

\* the paths os.path.getsize has been called on
SizeProbed == IF pc = "stage1" THEN 1..(i - 1) ELSE Files

\* the files for which SizeProbeFailed, MiniHashFailed or FullHashFailed holds
Excluded ==
    (SizeProbed \ Held(sizes))
    \cup (Hashed(TRUE) \ Held(mini_hashes))
    \cup (Hashed(FALSE) \ Held(full_hashes))

\* the groups of a scan of the files S: each class of identical files, first
\* yielded file first, unless the metadata probe of that file fails
Groups(S) ==
    {<<f, InOrder((Twins(f) \cap S) \ {f})>> :
       f \in {g \in S : (\A h \in Twins(g) \cap S : g <= h) /\ g \notin Failed("stat")}}

\* C8: a file whose size probe, partial hash or full hash failed has a
\* warning and is in no row; the scan always has a next step until it
\* returns; at the end the rows are the groups of a scan of the other files.
C8_FailuresOnlyExclude ==
    LET excluded == Excluded
        groups == Groups(Files \ excluded)
    IN /\ excluded \subseteq Warned
       /\ excluded \cap AllRowPaths = {}
       /\ ~Done => ENABLED Next
       /\ Done => /\ {<<out[n].file, out[n].duplicates>> : n \in 1..Len(out)} = groups
                  /\ Len(out) = Cardinality(groups)

C8_Witness ==
    /\ Done
    /\ \E f \in Files : MiniHashFailed(f) /\ f \in Held(sizes)
    /\ \E f \in Files : FullHashFailed(f)
    /\ out # <<>>

\* ================================================================ C9
AloneIn(d, f) == \E n \in 1..Len(d) : d[n].files = <<f>>

\* the files of the buckets of two or more
Candidates(d) == UNION {Range(d[n].files) : n \in {m \in 1..Len(d) : Len(d[m].files) >= 2}}

\* C9 (as claimed): a file alone in its size bucket is never hashed, a file
\* alone in its (partial fingerprint, size) bucket is never fully hashed, and
\* at the end each such file has a singleton row.
C9_SingletonAlwaysEmitted ==
    /\ \A f \in Hashed(TRUE) \cup Hashed(FALSE) : ~AloneIn(sizes, f)
    /\ \A f \in Hashed(FALSE) : ~AloneIn(mini_hashes, f)
    /\ Done => \A f \in Files :
                  AloneIn(sizes, f) \/ AloneIn(mini_hashes, f) => HasSingletonRow(f)

\* C9 (amended): a file alone in its size bucket is never hashed, a file
\* alone in its (partial fingerprint, size) bucket is never fully hashed,
\* only members of buckets of two or more are hashed, and at the end each
\* such file has exactly one row, a singleton row, unless its metadata probe
\* failed, and then it has a warning and no row.
C9_SingletonEmittedIfStat ==
    /\ Hashed(TRUE) \cup Hashed(FALSE) \subseteq Candidates(sizes)
    /\ Hashed(FALSE) \subseteq Candidates(mini_hashes)
    /\ Done => \A f \in Files :
                  AloneIn(sizes, f) \/ AloneIn(mini_hashes, f) =>
                     /\ AloneIn(sizes, f) => f \notin Hashed(TRUE) \cup Hashed(FALSE)
                     /\ f \notin Hashed(FALSE)
                     /\ IF f \in Failed("stat")
                        THEN RowsOf(f) = {}
                        ELSE HasSingletonRow(f) /\ Cardinality(RowsOf(f)) = 1

C9_Witness ==
    /\ Done
    /\ \E f \in Files : AloneIn(sizes, f) /\ HasSingletonRow(f)
    /\ \E f \in Files : AloneIn(mini_hashes, f) /\ HasSingletonRow(f)
                        /\ f \in Hashed(TRUE)

\* ================================================================ C10
\* C10: once any hash is computed every traversed path has had its size
\* probe; once any full hash is computed every file of a size bucket of two
\* or more has had its partial hash, and no partial hash follows a full one;
\* once a full-hash bucket has its row every file of a partial-hash bucket of
\* two or more has had its full hash.
C10_StagesInOrder ==
    /\ md5calls # <<>> => Files = Held(sizes) \cup Failed("size")
    /\ Hashed(FALSE) # {} => Candidates(sizes) \subseteq Hashed(TRUE)
    /\ \A a, b \in 1..Len(md5calls) :
          a < b /\ md5calls[b].first_block_only => md5calls[a].first_block_only
    /\ \A n \in 1..Len(out) :
          out[n].file \in Held(full_hashes) =>
             Candidates(mini_hashes) \subseteq Hashed(FALSE)

C10_Witness ==
    /\ Hashed(TRUE) # {}
    /\ Hashed(FALSE) # {}
    /\ \E n \in 1..Len(out) : out[n].file \in Held(full_hashes)
    /\ Done

====
